---- MODULE Spec2Model ----
(***************************************************************************)
(* Model of sutera-lib's signature module: the identity string codec       *)
(* (signature/identity.rs) and the signed message envelope                 *)
(* (signature/message.rs).                                                 *)
(*                                                                         *)
(* A Rust String is modelled as the sequence of its UTF-8 bytes (integers   *)
(* 0..255), because the code measures and slices strings by bytes          *)
(* (str::len, as_bytes().chunks(2)).  Option<T> values are records with a  *)
(* `some` flag, Result values are records with a `tag`; a panic (a failed  *)
(* unwrap) is the result tagged "Panic".                                   *)
(***************************************************************************)
EXTENDS Integers, Sequences, FiniteSets, TLC

VARIABLES identity, identityOf, text, textOf, parsed,
          envelope, newCall, verified, payload, payloadOf, deserialized

vars == <<identity, identityOf, text, textOf, parsed,
          envelope, newCall, verified, payload, payloadOf, deserialized>>

codecVars == <<identity, identityOf, text, textOf, parsed>>
envelopeVars == <<envelope, newCall, verified, payload, payloadOf, deserialized>>

\* ------------------------------------------------------------------ bounds

\* Number of distinct signing keys (seeds) the callers hold.
NumSigners == 2
\* Byte offsets 0..MaxOffset of the key segment at which inputs are perturbed.
MaxOffset == 3
\* Input strings are made of 1..MaxParts dot-separated segments.
MaxParts == 4

\* ------------------------------------------------------- Option and Result

None == [some |-> FALSE]
Some(x) == [some |-> TRUE, val |-> x]

Ok(v) == [tag |-> "Ok", val |-> v]
Err(e, arg) == [tag |-> "Err", err |-> e, arg |-> arg]
Panic == [tag |-> "Panic"]

\* ---------------------------------------------------------- string helpers

\* '.' the separator of value.split('.')
DOT == 46
\* '@' the separator of kind.find('@')
AT == 64
\* "user": the strum serialisation of SuteraIdentityKind::User
KIND_USER == <<117, 115, 101, 114>>
\* "sutera-identity-v1"
VERSION == <<115, 117, 116, 101, 114, 97, 45, 105, 100, 101, 110, 116, 105,
             116, 121, 45, 118, 49>>
\* length of the key segment: a 32 byte key as 64 hexadecimal letters
KEY_HEX_LEN == 64
\* ed25519 verifying key size in bytes
KEY_LEN == 32

\* str::find(c): the index (1-based) of the first c, 0 when there is none
RECURSIVE FindFrom(_, _, _)
FindFrom(s, c, i) ==
    IF i > Len(s) THEN 0
    ELSE IF s[i] = c THEN i
    ELSE FindFrom(s, c, i + 1)

find(s, c) == FindFrom(s, c, 1)

\* str::split(c).collect(): always at least one segment
RECURSIVE split(_, _)
split(s, c) ==
    LET i == find(s, c)
    IN  IF i = 0 THEN <<s>>
        ELSE <<SubSeq(s, 1, i - 1)>> \o split(SubSeq(s, i + 1, Len(s)), c)

\* slice::chunks(2): consecutive chunks of 2 bytes, the last one possibly shorter
RECURSIVE chunks2(_)
chunks2(bs) ==
    IF Len(bs) = 0 THEN <<>>
    ELSE IF Len(bs) <= 2 THEN <<bs>>
    ELSE <<SubSeq(bs, 1, 2)>> \o chunks2(SubSeq(bs, 3, Len(bs)))

IsCont(b) == b >= 128 /\ b <= 191

\* std::str::from_utf8(chunk).is_ok()
RECURSIVE Utf8Valid(_)
Utf8Valid(bs) ==
    IF Len(bs) = 0 THEN TRUE
    ELSE LET b == bs[1] IN
         IF b < 128 THEN Utf8Valid(Tail(bs))
         ELSE IF b >= 194 /\ b <= 223
              THEN Len(bs) >= 2 /\ IsCont(bs[2])
                   /\ Utf8Valid(SubSeq(bs, 3, Len(bs)))
         ELSE IF b >= 224 /\ b <= 239
              THEN Len(bs) >= 3 /\ IsCont(bs[2]) /\ IsCont(bs[3])
                   /\ (b = 224 => bs[2] >= 160)
                   /\ (b = 237 => bs[2] <= 159)
                   /\ Utf8Valid(SubSeq(bs, 4, Len(bs)))
         ELSE IF b >= 240 /\ b <= 244
              THEN Len(bs) >= 4 /\ IsCont(bs[2]) /\ IsCont(bs[3]) /\ IsCont(bs[4])
                   /\ (b = 240 => bs[2] >= 144)
                   /\ (b = 244 => bs[2] <= 143)
                   /\ Utf8Valid(SubSeq(bs, 5, Len(bs)))
         ELSE FALSE

\* char::to_digit(16): -1 stands for None
to_digit(c) ==
    IF c >= 48 /\ c <= 57 THEN c - 48
    ELSE IF c >= 97 /\ c <= 102 THEN c - 87
    ELSE IF c >= 65 /\ c <= 70 THEN c - 55
    ELSE -1

RECURSIVE DigitsValue(_, _)
DigitsValue(ds, acc) ==
    IF Len(ds) = 0 THEN acc
    ELSE IF to_digit(ds[1]) < 0 THEN -1
    ELSE IF acc * 16 + to_digit(ds[1]) > 255 THEN -1
    ELSE DigitsValue(Tail(ds), acc * 16 + to_digit(ds[1]))

\* u8::from_str_radix(s, 16): the value, or -1 for Err(ParseIntError).
\* An unsigned parse strips one leading '+' (43) and rejects '-' as a digit;
\* an empty string and a lone sign are errors.
from_str_radix(s) ==
    IF Len(s) = 0 THEN -1
    ELSE IF Len(s) = 1 /\ (s[1] = 43 \/ s[1] = 45) THEN -1
    ELSE IF s[1] = 43 THEN DigitsValue(Tail(s), 0)
    ELSE DigitsValue(s, 0)

HexChar(d) == IF d < 10 THEN 48 + d ELSE 87 + d

\* format!("{:x}", byte): lowercase hexadecimal without padding
FormatByteNoPad(byte) ==
    IF byte < 16 THEN <<HexChar(byte)>>
    ELSE <<HexChar(byte \div 16), HexChar(byte % 16)>>

HexCharUpper(d) == IF d < 10 THEN 48 + d ELSE 55 + d

\* format!("{:02X}", byte): two uppercase hexadecimal letters
FormatByteUpper(byte) == <<HexCharUpper(byte \div 16), HexCharUpper(byte % 16)>>

\* format!("{:02x}", byte): two lowercase hexadecimal letters, zero padded
FormatByte(byte) == <<HexChar(byte \div 16), HexChar(byte % 16)>>

\* .iter().fold(String::with_capacity(64), |acc, byte| acc + &format!("{:02x}", byte))
RECURSIVE FoldHex(_, _)
FoldHex(bytes, acc) ==
    IF Len(bytes) = 0 THEN acc
    ELSE FoldHex(Tail(bytes), acc \o FormatByte(bytes[1]))

\* ---------------------------------------------------------- identity codec

\* SuteraIdentityKind::from_str (strum::EnumString): exact, case-sensitive
kind_from_str(s) == IF s = KIND_USER THEN Ok("User") ELSE Err("ParseError", <<>>)

\* SuteraIdentityKind::as_ref (strum::AsRefStr)
kind_as_ref(kind) == KIND_USER

\* impl From<SuteraIdentity> for String
from_identity(id) ==
    (IF id.display_name.some
     THEN kind_as_ref(id.kind) \o <<AT>> \o id.display_name.val
     ELSE kind_as_ref(id.kind))
    \o <<DOT>> \o VERSION \o <<DOT>> \o FoldHex(id.pub_signature, <<>>)

\* The lazy map over the chunks collected into a Result: the first chunk that
\* is not UTF-8 panics (unwrap), the first chunk that does not parse ends the
\* collection with Err; chunks after it are not looked at.
RECURSIVE DecodeChunks(_, _)
DecodeChunks(cs, acc) ==
    IF Len(cs) = 0 THEN Ok(acc)
    ELSE IF ~Utf8Valid(cs[1]) THEN Panic
    ELSE IF from_str_radix(cs[1]) < 0 THEN Err("InvalidFormat", <<>>)
    ELSE DecodeChunks(Tail(cs), Append(acc, from_str_radix(cs[1])))

\* impl TryFrom<String> for SuteraIdentity
try_from(value) ==
    LET parts == split(value, DOT) IN
    IF Len(parts) # 3 THEN Err("InvalidFormat", <<>>)
    ELSE
    LET kind == parts[1]
        version == parts[2]
        pub_key == parts[3]
    IN
    IF Len(kind) = 0 THEN Err("InvalidFormat", <<>>)
    ELSE IF version # VERSION THEN Err("VersionMismatch", version)
    ELSE IF Len(pub_key) # KEY_HEX_LEN THEN Err("InvalidFormat", <<>>)
    ELSE
    LET index == find(kind, AT)
        token == IF index > 0 THEN SubSeq(kind, 1, index - 1) ELSE kind
        display_name == IF index > 0
                        THEN Some(SubSeq(kind, index + 1, Len(kind)))
                        ELSE None
    IN
    IF kind_from_str(token).tag # "Ok" THEN Err("UnsupportedKind", token)
    ELSE
    LET pub_key_bytes == DecodeChunks(chunks2(pub_key), <<>>) IN
    IF pub_key_bytes.tag # "Ok" THEN pub_key_bytes
    ELSE IF Len(pub_key_bytes.val) # KEY_LEN THEN Panic
    ELSE Ok([kind |-> kind_from_str(token).val,
             display_name |-> display_name,
             pub_signature |-> pub_key_bytes.val])

\* ------------------------------------------------ the signature primitive
\* ring_compat's ed25519 is used through four calls: SigningKey::verifying_key,
\* Signer::sign, Verifier::verify and the textual form of a Signature.  A
\* signing key is its seed number.  A signature is 64 bytes; it is modelled as
\* an ideal deterministic signature: the signature of a message under a key is
\* the one 64-byte value that verifies for that key and that message.

\* length of an ed25519 signature in bytes
SIG_LEN == 64

\* signer.verifying_key(): an injective derivation of the 32 byte public key
verifying_key(signer) == [i \in 1..KEY_LEN |-> (signer * 16 + i * 7) % 256]

\* The 32 bytes that stand for the message in a signature: injective on
\* messages of at most 31 bytes (the message, zero padding, then its length).
MessageScalar(bytes) ==
    [i \in 1..KEY_LEN |->
        IF i <= Len(bytes) THEN bytes[i]
        ELSE IF i = KEY_LEN THEN Len(bytes)
        ELSE 0]

\* signer.sign(message.as_bytes())
sign(signer, bytes) == verifying_key(signer) \o MessageScalar(bytes)

\* pub_signature.verify(message.as_bytes(), &signature).is_ok()
ed25519_verify(pub_signature, bytes, signature) ==
    signature = pub_signature \o MessageScalar(bytes)

\* write!(f, "{:02X}", byte) of the signature's Display
UpperHexByte(byte) == <<HexCharUpper(byte \div 16), HexCharUpper(byte % 16)>>

RECURSIVE FoldHexUpper(_, _)
FoldHexUpper(bytes, acc) ==
    IF Len(bytes) = 0 THEN acc
    ELSE FoldHexUpper(Tail(bytes), acc \o UpperHexByte(bytes[1]))

\* signature.to_string(): the signature's bytes in uppercase hexadecimal
signature_to_string(signature) == FoldHexUpper(signature, <<>>)

IsLowerAlpha(c) == c >= 97 /\ c <= 122
IsUpperAlpha(c) == c >= 65 /\ c <= 90
IsDigit(c) == c >= 48 /\ c <= 57

\* ed25519::Signature::from_str: 128 hexadecimal letters, upper or lower case
\* but not mixed, decoded two letters per byte
signature_from_str(s) ==
    IF Len(s) # 2 * SIG_LEN THEN Err("signature::Error", <<>>)
    ELSE IF \E i \in 1..Len(s) : ~(IsDigit(s[i]) \/ IsLowerAlpha(s[i]) \/ IsUpperAlpha(s[i]))
         THEN Err("signature::Error", <<>>)
    ELSE IF (\E i \in 1..Len(s) : IsLowerAlpha(s[i])) /\ (\E i \in 1..Len(s) : IsUpperAlpha(s[i]))
         THEN Err("signature::Error", <<>>)
    ELSE IF \E i \in 1..Len(s) : to_digit(s[i]) < 0
         THEN Err("signature::Error", <<>>)
    ELSE Ok([i \in 1..SIG_LEN |-> 16 * to_digit(s[2 * i - 1]) + to_digit(s[2 * i])])

\* ------------------------------------------------- signed message envelope

\* SuteraSignedMessage::new without the comparison of the two keys
new_unchecked(author, message, signer) ==
    [out |-> Ok([author |-> author, message |-> message,
                 signature |-> sign(signer, message)]),
     signed |-> TRUE]

\* SuteraSignedMessage::new signing before it compares the two keys
new_sign_first(author, message, signer) ==
    LET signature == sign(signer, message) IN
    IF verifying_key(signer) # author.pub_signature
    THEN [out |-> Err("SigningKeyMismatch", <<>>), signed |-> TRUE]
    ELSE [out |-> Ok([author |-> author, message |-> message,
                      signature |-> signature]),
          signed |-> TRUE]

\* SuteraSignedMessage::new: `out` is the value returned, `signed` tells
\* whether signer.sign was called on the way
new(author, message, signer) ==
    IF verifying_key(signer) # author.pub_signature
    THEN [out |-> Err("SigningKeyMismatch", <<>>), signed |-> FALSE]
    ELSE [out |-> Ok([author |-> author, message |-> message,
                      signature |-> sign(signer, message)]),
          signed |-> TRUE]

\* SuteraSignedMessage::verify with is_err() in the place of is_ok()
verify_is_err(m) == ~ed25519_verify(m.author.pub_signature, m.message, m.signature)

\* SuteraSignedMessage::verify
verify(m) == ed25519_verify(m.author.pub_signature, m.message, m.signature)

\* impl Serialize for SuteraSignedMessage: the SuteraSignedMessagePayload
serialize(m) ==
    [author |-> from_identity(m.author),
     message |-> m.message,
     signature |-> signature_to_string(m.signature)]

\* Deserialize that fills `message` from the wrong payload field
deserialize_wrong_field(p) ==
    LET author == try_from(p.author) IN
    IF author.tag = "Panic" THEN Panic
    ELSE IF author.tag = "Err" THEN Err("de::Error::custom", author.err)
    ELSE LET signature == signature_from_str(p.signature) IN
         IF signature.tag = "Err" THEN Err("de::Error::custom", signature.err)
         ELSE Ok([author |-> author.val, message |-> p.author,
                  signature |-> signature.val])

\* Deserialize that also verifies the signature and rejects an invalid one
deserialize_verifying(p) ==
    LET author == try_from(p.author) IN
    IF author.tag = "Panic" THEN Panic
    ELSE IF author.tag = "Err" THEN Err("de::Error::custom", author.err)
    ELSE LET signature == signature_from_str(p.signature) IN
         IF signature.tag = "Err" THEN Err("de::Error::custom", signature.err)
         ELSE IF ~ed25519_verify(author.val.pub_signature, p.message, signature.val)
              THEN Err("de::Error::custom", "invalid signature")
         ELSE Ok([author |-> author.val, message |-> p.message,
                  signature |-> signature.val])

\* impl Deserialize for SuteraSignedMessage, from a decoded payload: the
\* author is parsed first, then the signature; a codec error is wrapped by
\* serde::de::Error::custom, a panic of the codec unwinds through the call
deserialize(p) ==
    LET author == try_from(p.author) IN
    IF author.tag = "Panic" THEN Panic
    ELSE IF author.tag = "Err" THEN Err("de::Error::custom", author.err)
    ELSE LET signature == signature_from_str(p.signature) IN
         IF signature.tag = "Err" THEN Err("de::Error::custom", signature.err)
         ELSE Ok([author |-> author.val, message |-> p.message,
                  signature |-> signature.val])

\* ------------------------------------------------------------------ inputs

\* 64 times the letter '0': the text of the all-zero key
Zero64 == [i \in 1..KEY_HEX_LEN |-> 48]
ZeroKey == [i \in 1..KEY_LEN |-> 0]

\* s with the bytes after byte offset `off` overwritten by `pat`
Patch(s, off, pat) ==
    [i \in 1..Len(s) |-> IF i > off /\ i <= off + Len(pat) THEN pat[i - off] ELSE s[i]]

\* "0f" "F0" "aB" "+f" "+" "-1" "x0" "g" "e-acute" (2 bytes) "hiragana a" (3 bytes)
Patterns ==
    { <<48, 102>>, <<70, 48>>, <<97, 66>>, <<43, 102>>, <<43>>, <<45, 49>>,
      <<120, 48>>, <<103>>, <<195, 169>>, <<227, 129, 130>> }

KeyTexts ==
    { Patch(Zero64, off, pat) : off \in 0..MaxOffset, pat \in Patterns }
    \cup { Zero64,
           \* "x0" in the first chunk, a split 2-byte letter in a later one
           Patch(Patch(Zero64, 0, <<120, 48>>), 5, <<195, 169>>),
           \* lengths other than 64: "abc", "", 63 and 65 letters,
           \* 64 letters of which one takes 2 bytes
           <<97, 98, 99>>, <<>>, SubSeq(Zero64, 1, 63), Zero64 \o <<48>>,
           Patch(Zero64 \o <<48>>, 0, <<195, 169>>) }

\* "see2et", "unknown", "hello"
NAME_SEE2ET == <<115, 101, 101, 50, 101, 116>>
KIND_UNKNOWN == <<117, 110, 107, 110, 111, 119, 110>>

KindSegments ==
    { KIND_USER,
      KIND_USER \o <<AT>> \o NAME_SEE2ET,
      KIND_USER \o <<AT>>,
      KIND_USER \o <<AT, 97, AT, 98>>,
      KIND_UNKNOWN,
      KIND_UNKNOWN \o <<AT, 104, 101, 108, 108, 111>>,
      <<85, 115, 101, 114>>,
      <<AT>> \o KIND_USER,
      <<>> }

\* "sutera-identity-v2"
VERSION_V2 == Patch(VERSION, Len(VERSION) - 1, <<50>>)

Join3(a, b, c) == a \o <<DOT>> \o b \o <<DOT>> \o c

RECURSIVE JoinParts(_)
JoinParts(n) ==
    LET seg == IF n = 1 THEN KIND_USER ELSE IF n = 2 THEN VERSION ELSE Zero64
    IN  IF n = 1 THEN seg ELSE JoinParts(n - 1) \o <<DOT>> \o seg

InputStrings ==
    { Join3(k, VERSION, h) : k \in KindSegments, h \in KeyTexts }
    \cup { Join3(k, v, h) : k \in {NAME_SEE2ET, KIND_USER, <<>>},
                            v \in {VERSION_V2, <<>>},
                            h \in {<<120, 120, 120>>, Zero64, Patch(Zero64, 1, <<195, 169>>)} }
    \cup { JoinParts(n) : n \in 1..MaxParts }

SigningKeys == 1..NumSigners

\* "Hello, Sutera!" and "Hello, Sutera?"
MSG_HELLO == <<72, 101, 108, 108, 111, 44, 32, 83, 117, 116, 101, 114, 97, 33>>
Messages == { MSG_HELLO, Patch(MSG_HELLO, Len(MSG_HELLO) - 1, <<63>>) }

\* display names a caller may put in the public field: none, "see2et", "A1",
\* and three that break the documented alphanumeric rule: "", "a.b", "a@b"
DisplayNames ==
    { None, Some(NAME_SEE2ET), Some(<<65, 49>>),
      Some(<<>>), Some(<<97, DOT, 98>>), Some(<<97, AT, 98>>) }

InputKeys ==
    { ZeroKey, [i \in 1..KEY_LEN |-> (250 + i * i) % 256] }
    \cup { verifying_key(k) : k \in SigningKeys }

InputIdentities ==
    { [kind |-> "User", display_name |-> n, pub_signature |-> k] :
        n \in DisplayNames, k \in InputKeys }

\* authors of envelopes: without a name, with a valid one, with "a.b"
AuthorIdentities ==
    { [kind |-> "User", display_name |-> n, pub_signature |-> k] :
        n \in { None, Some(NAME_SEE2ET), Some(<<97, DOT, 98>>) },
        k \in { ZeroKey } \cup { verifying_key(k) : k \in SigningKeys } }

InputPayloads ==
    { [author |-> a, message |-> m, signature |-> g] :
        a \in { from_identity([kind |-> "User", display_name |-> Some(NAME_SEE2ET),
                               pub_signature |-> verifying_key(1)]),
                Join3(KIND_USER, VERSION, Zero64),
                Join3(KIND_UNKNOWN, VERSION, Zero64),
                Join3(KIND_USER, VERSION, Patch(Zero64, 1, <<195, 169>>)) },
        m \in { MSG_HELLO, <<>> },
        g \in { signature_to_string(sign(1, MSG_HELLO)),
                FoldHex(sign(1, MSG_HELLO), <<>>),
                Patch(signature_to_string(sign(1, MSG_HELLO)), 0, <<97, 66>>),
                Patch(signature_to_string(sign(1, MSG_HELLO)), 0, <<43, 102>>),
                <<97, 98, 99>> } }

\* ------------------------------------------------------------ state machine

NoEnvelope ==
    /\ envelope = None
    /\ newCall = None
    /\ verified = None
    /\ payloadOf = None
    /\ deserialized = None

NoCodec ==
    /\ identityOf = None
    /\ textOf = None
    /\ parsed = None

\* The codec's callers start from an identity they built or a string they got.
InitCodec ==
    /\ \/ /\ identity \in { Some(x) : x \in InputIdentities }
          /\ text = None
       \/ /\ identity = None
          /\ text \in { Some(x) : x \in InputStrings }
    /\ payload = None
    /\ NoCodec
    /\ NoEnvelope

\* The envelope's callers start from an author identity or a received payload.
InitEnvelope ==
    /\ \/ /\ identity \in { Some(x) : x \in AuthorIdentities }
          /\ payload = None
       \/ /\ identity = None
          /\ payload \in { Some(x) : x \in InputPayloads }
    /\ text = None
    /\ NoCodec
    /\ NoEnvelope

\* let s: String = identity.into()
IntoString ==
    /\ identity.some
    /\ text' = Some(from_identity(identity.val))
    /\ textOf' = identity
    /\ UNCHANGED <<identity, identityOf, parsed>>
    /\ UNCHANGED envelopeVars

\* SuteraIdentity::try_from(text)
TryFrom ==
    /\ text.some
    /\ LET r == try_from(text.val) IN
       /\ parsed' = Some([input |-> text.val, out |-> r])
       /\ IF r.tag = "Ok"
          THEN identity' = Some(r.val) /\ identityOf' = text
          ELSE UNCHANGED <<identity, identityOf>>
    /\ UNCHANGED <<text, textOf>>
    /\ UNCHANGED envelopeVars

\* SuteraSignedMessage::new(identity, message, signer)
New ==
    /\ identity.some
    /\ \E message \in Messages, signer \in SigningKeys :
         LET r == new(identity.val, message, signer) IN
         /\ newCall' = Some([author |-> identity.val, message |-> message,
                             signer |-> signer, out |-> r.out, signed |-> r.signed])
         /\ IF r.out.tag = "Ok"
            THEN envelope' = Some(r.out.val)
            ELSE UNCHANGED envelope
    /\ UNCHANGED <<verified, payload, payloadOf, deserialized>>
    /\ UNCHANGED codecVars

\* envelope.verify()
Verify ==
    /\ envelope.some
    /\ verified' = Some([of |-> envelope.val, out |-> verify(envelope.val)])
    /\ UNCHANGED <<envelope, newCall, payload, payloadOf, deserialized>>
    /\ UNCHANGED codecVars

\* envelope.message = other: the field is public, the signature stays
MutateMessage ==
    /\ envelope.some
    /\ \E other \in Messages \ {envelope.val.message} :
         envelope' = Some([envelope.val EXCEPT !.message = other])
    /\ UNCHANGED <<newCall, verified, payload, payloadOf, deserialized>>
    /\ UNCHANGED codecVars

\* envelope.serialize(serializer)
Serialize ==
    /\ envelope.some
    /\ payload' = Some(serialize(envelope.val))
    /\ payloadOf' = envelope
    /\ UNCHANGED <<envelope, newCall, verified, deserialized>>
    /\ UNCHANGED codecVars

\* SuteraSignedMessage::deserialize(deserializer) of the payload in hand
Deserialize ==
    /\ payload.some
    /\ LET r == deserialize(payload.val) IN
       /\ deserialized' = Some([input |-> payload.val, out |-> r])
       /\ IF r.tag = "Ok"
          THEN envelope' = Some(r.val)
          ELSE UNCHANGED envelope
    /\ UNCHANGED <<newCall, verified, payload, payloadOf>>
    /\ UNCHANGED codecVars

NextCodec ==
    \/ IntoString
    \/ TryFrom

NextEnvelope ==
    \/ New
    \/ Verify
    \/ MutateMessage
    \/ Serialize
    \/ Deserialize

SpecCodec == InitCodec /\ [][NextCodec]_vars

SpecEnvelope == InitEnvelope /\ [][NextEnvelope]_vars

\* ------------------------------------------------------------------ claims

IsAlphanumeric(c) == IsDigit(c) \/ IsLowerAlpha(c) \/ IsUpperAlpha(c)

\* A valid Identity: a recognized kind, no display name or a non-empty
\* alphanumeric one, a key of exactly 32 bytes.
ValidIdentity(x) ==
    /\ x.kind = "User"
    /\ x.display_name.some =>
         /\ Len(x.display_name.val) > 0
         /\ \A i \in 1..Len(x.display_name.val) : IsAlphanumeric(x.display_name.val[i])
    /\ Len(x.pub_signature) = KEY_LEN

IsHexText(s) == \A i \in 1..Len(s) : to_digit(s[i]) >= 0

IsLowerHexText(s) ==
    \A i \in 1..Len(s) : IsDigit(s[i]) \/ (s[i] >= 97 /\ s[i] <= 102)

\* The string in hand was serialized from textOf and then parsed.
SerializedThenParsed ==
    /\ textOf.some
    /\ text.some
    /\ parsed.some
    /\ parsed.val.input = text.val

\* C1: parsing the string serialized from a valid Identity succeeds and gives
\* an Identity equal to it in kind, display_name and public key.
C1_RoundTrip ==
    (SerializedThenParsed /\ ValidIdentity(textOf.val))
        => parsed.val.out = Ok(textOf.val)

C1_Witness ==
    /\ SerializedThenParsed
    /\ ValidIdentity(textOf.val)
    /\ textOf.val.display_name.some
    /\ textOf.val.pub_signature # ZeroKey
    /\ parsed.val.out.tag = "Ok"

\* The first failing check of the documented order, on segments cut at '.':
\* (1) three segments, (2) segment 1 non-empty, (3) the version token,
\* (4) segment 3 of length 64, (5) a recognized kind token, (6) segment 3 is
\* hexadecimal.  "Pass" when no check fails.
FirstFailingCheck(value) ==
    LET parts == split(value, DOT) IN
    IF Len(parts) # 3 THEN Err("InvalidFormat", <<>>)
    ELSE IF Len(parts[1]) = 0 THEN Err("InvalidFormat", <<>>)
    ELSE IF parts[2] # VERSION THEN Err("VersionMismatch", parts[2])
    ELSE IF Len(parts[3]) # KEY_HEX_LEN THEN Err("InvalidFormat", <<>>)
    ELSE LET at == find(parts[1], AT)
             token == IF at = 0 THEN parts[1] ELSE SubSeq(parts[1], 1, at - 1)
         IN  IF token # KIND_USER THEN Err("UnsupportedKind", token)
             ELSE IF ~IsHexText(parts[3]) THEN Err("InvalidFormat", <<>>)
             ELSE [tag |-> "Pass"]

\* C2: for every input string the error returned by parse is the error of the
\* first failing check in the documented order.
C2_ErrorPriority ==
    parsed.some =>
        (FirstFailingCheck(parsed.val.input).tag = "Err"
            => parsed.val.out = FirstFailingCheck(parsed.val.input))

\* C3: parse returns an Identity only if segment 3 is exactly 64 hexadecimal
\* digits, and an input that passes the other checks with a 64-character
\* segment 3 holding a non-hex character gets InvalidFormat.
C3_HexStrict ==
    parsed.some =>
        LET parts == split(parsed.val.input, DOT) IN
        /\ parsed.val.out.tag = "Ok"
             => (Len(parts) = 3 /\ Len(parts[3]) = KEY_HEX_LEN /\ IsHexText(parts[3]))
        /\ (/\ Len(parts) = 3
            /\ Len(parts[3]) = KEY_HEX_LEN
            /\ ~IsHexText(parts[3])
            /\ FirstFailingCheck(Join3(parts[1], parts[2], Zero64)).tag = "Pass")
             => parsed.val.out = Err("InvalidFormat", <<>>)

\* C4: parse is total: for every input string it returns an Identity or one of
\* InvalidFormat, VersionMismatch, UnsupportedKind, and never panics.
C4_Total ==
    parsed.some =>
        \/ parsed.val.out.tag = "Ok"
        \/ /\ parsed.val.out.tag = "Err"
           /\ parsed.val.out.err \in {"InvalidFormat", "VersionMismatch", "UnsupportedKind"}

\* The identity in hand was parsed from identityOf and then serialized.
ParsedThenSerialized ==
    /\ identityOf.some
    /\ identity.some
    /\ textOf.some
    /\ text.some
    /\ textOf = identity

\* C10 as stated: serializing the Identity parsed from an accepted string
\* gives back exactly that string.
C10_CanonicalText ==
    ParsedThenSerialized => text = identityOf

\* C10 as amended: serializing the Identity parsed from an accepted string
\* whose key segment uses only the digits and the lowercase letters a-f gives
\* back exactly that string.
C10_CanonicalLowerHex ==
    (ParsedThenSerialized /\ IsLowerHexText(split(identityOf.val, DOT)[3]))
        => text = identityOf

C10_Witness ==
    /\ ParsedThenSerialized
    /\ IsLowerHexText(split(identityOf.val, DOT)[3])
    /\ identity.val.display_name.some
    /\ identity.val.pub_signature # ZeroKey
    /\ parsed.some
    /\ parsed.val.input = identityOf.val

\* The last call of new returned an envelope.
Built == newCall.some /\ newCall.val.out.tag = "Ok"

\* C5: every envelope returned by new verifies: it was signed over the
\* message's bytes by the key whose verifying key is the author's public key.
C5_NewVerifies ==
    /\ Built =>
         /\ verifying_key(newCall.val.signer) = newCall.val.out.val.author.pub_signature
         /\ newCall.val.out.val.signature = sign(newCall.val.signer, newCall.val.out.val.message)
    /\ (Built /\ verified.some /\ verified.val.of = newCall.val.out.val)
         => verified.val.out = TRUE

C5_Witness ==
    /\ Built
    /\ verified.some
    /\ verified.val.of = newCall.val.out.val
    /\ verified.val.out = TRUE

\* C6: new returns SigningKeyMismatch, without an envelope and without having
\* signed, exactly when the signer's verifying key differs from the author's
\* public key; it returns an envelope exactly when the two keys are equal.
C6_KeyMismatch ==
    newCall.some =>
        LET differ == verifying_key(newCall.val.signer) # newCall.val.author.pub_signature IN
        /\ differ <=> newCall.val.out = Err("SigningKeyMismatch", <<>>)
        /\ ~differ <=> newCall.val.out.tag = "Ok"
        /\ differ => ~newCall.val.signed

C6_Witness ==
    /\ newCall.some
    /\ verifying_key(newCall.val.signer) # newCall.val.author.pub_signature
    /\ newCall.val.author.pub_signature \in { verifying_key(k) : k \in SigningKeys }
    /\ newCall.val.out.tag = "Err"

\* The verified envelope is the built one with another message in it.
Tampered ==
    /\ Built
    /\ verified.some
    /\ verified.val.of.author = newCall.val.out.val.author
    /\ verified.val.of.signature = newCall.val.out.val.signature
    /\ verified.val.of.message # newCall.val.out.val.message

\* C7: an envelope built by new whose message was replaced by a different one,
\* author and signature kept, does not verify; verify returns a boolean and
\* leaves the envelope as it is.
C7_TamperDetected ==
    /\ [](Tampered => verified.val.out = FALSE)
    /\ [](verified.some => verified.val.out \in BOOLEAN)
    /\ [][verified' # verified => envelope' = envelope]_vars

C7_Witness ==
    /\ Tampered
    /\ verified.val.out = FALSE
    /\ envelope = Some(verified.val.of)

\* The payload in hand was serialized from an envelope built by new with a
\* valid author and then deserialized.
WireRoundTrip ==
    /\ Built
    /\ payloadOf.some
    /\ payloadOf.val = newCall.val.out.val
    /\ ValidIdentity(payloadOf.val.author)
    /\ payload.some
    /\ deserialized.some
    /\ deserialized.val.input = payload.val

\* C8: deserializing the payload serialized from an envelope built by new with
\* a valid author succeeds and gives an envelope equal to it; the message
\* field is carried unmodified.
C8_WireRoundTrip ==
    WireRoundTrip =>
        /\ payload.val.message = payloadOf.val.message
        /\ deserialized.val.out = Ok(payloadOf.val)

C8_Witness ==
    /\ WireRoundTrip
    /\ payloadOf.val.author.display_name.some
    /\ deserialized.val.out.tag = "Ok"

\* C9: deserialization returns an envelope exactly when the author field
\* parses and the signature field decodes, whatever verify would say of the
\* result, and the envelope holds the parsed author, the payload's message and
\* the decoded signature.
C9_NoVerifyOnDeserialize ==
    deserialized.some =>
        LET p == deserialized.val.input
            author == try_from(p.author)
            signature == signature_from_str(p.signature)
        IN  /\ deserialized.val.out.tag = "Ok"
                 <=> (author.tag = "Ok" /\ signature.tag = "Ok")
            /\ deserialized.val.out.tag = "Ok"
                 => deserialized.val.out.val =
                        [author |-> author.val, message |-> p.message,
                         signature |-> signature.val]

C9_Witness ==
    /\ deserialized.some
    /\ deserialized.val.out.tag = "Ok"
    /\ verified.some
    /\ verified.val.of = deserialized.val.out.val
    /\ verified.val.out = FALSE

====
